---- MODULE Spec2Model ----
(***************************************************************************)
(* A model of the batch programs of the repository and of one function:    *)
(*   - update_smiles_strict (src/checkingsomething.py): the PubChem        *)
(*     fallback chain InChIKey lookup -> name lookup, per compound entry;  *)
(*   - main (src/lotus_batch_extractor.py): the resumable LOTUS batch      *)
(*     extractor that appends one section per plant to an output file and  *)
(*     derives the set of completed plants by scanning that file;          *)
(*   - format_output (src/lotus_batch_extractor.py) called on its own, for *)
(*     the aggregation of compound entries by composite key.               *)
(* Text is modelled as a sequence of units (single characters, or a fixed  *)
(* piece of text such as the 80-character rule).                           *)
(***************************************************************************)
EXTENDS Integers, Sequences, FiniteSets, TLC

VARIABLES
    \* ---- update_smiles_strict ----
    pcS,            \* position in update_smiles_strict
    data,           \* data['compounds'] as loaded from input_json
    max_compounds,  \* the max_compounds argument
    idx,            \* number of entries of compounds already handled
    smiles,         \* local smiles (InChIKey result)
    best_smiles,    \* local best_smiles
    updated_count,
    emptied_count,
    output_json,    \* the persisted output file of update_smiles_strict
    ikRes,          \* history: the InChIKey lookup of the current entry
    nmRes,          \* history: the name lookup of the current entry
    ncalls,         \* history: number of PubChem calls made so far
    slept,          \* history: TRUE iff time.sleep ran since the last call
    chain,          \* history: the lookups made for the current entry, in order
    \* ---- main of lotus_batch_extractor ----
    pcL,            \* position in main
    plants,         \* the work set read from plants.csv: (plant_num, plant_name)
    disk,           \* the output file as persisted on disk
    out,            \* text written to out_file by this run, not yet on disk
    is_new_file,
    completed_plants,
    pi,             \* number of plants the for loop has gone through
    names_to_query,
    qi,             \* number of names of the current plant already queried
    all_compounds,
    total_compounds,
    run,            \* history: number of the current run of main
    prevEnd,        \* history: how the previous run ended
    processed,      \* history: indices of the plants this run wrote a section for
    nqueries,       \* history: number of SPARQL queries this run issued
    qfails,         \* history: queries of the current plant that raised
    marks,          \* history: length of this run's text after each section
    heads,          \* history: length of this run's text after each section's header line
    diskAtStart,    \* history: the file's text when this run started
    killN,          \* history: whole sections of the killed run that reached the disk
    killClean,      \* history: the kill cut the text at a section boundary
    truncIdx,       \* history: plant whose section was cut after its header line, or 0
    failed,         \* history: per run, the plants written after all their queries raised
    \* ---- format_output on its own ----
    pcF,            \* position in format_output
    inCompounds,    \* the compounds argument
    seenItems,      \* list(seen.items()): the entries kept, in dict order
    returned        \* the text format_output returned

varsS == <<pcS, data, max_compounds, idx, smiles, best_smiles, updated_count,
           emptied_count, output_json, ikRes, nmRes, ncalls, slept, chain>>

varsL == <<pcL, plants, disk, out, is_new_file, completed_plants, pi,
           names_to_query, qi, all_compounds, total_compounds, run, prevEnd,
           processed, nqueries, qfails, marks, heads, diskAtStart, killN,
           killClean, truncIdx, failed>>

varsF == <<pcF, inCompounds, seenItems, returned>>

vars == <<varsS, varsL, varsF>>

(***************************************************************************)
(* update_smiles_strict                                                    *)
(***************************************************************************)
MaxEntries == 2

(***************************************************************************)
(* Python values of a hint field of a JSON entry: a string, or null.       *)
(***************************************************************************)
Str(s) == [t |-> "str", v |-> s]
NullV == [t |-> "null", v |-> <<>>]

\* a wrong truthiness: any string counts, the empty one too
TruthyIgnoresEmpty(x) == x.t = "str"

\* Python truthiness of a hint field (`if inchikey:`, `if name:`).
Truthy(x) == x.t = "str" /\ x.v # <<>>

\* name[:40] raises TypeError unless name can be sliced.
Sliceable(x) == x.t = "str"

\* a wrong stereo test: the backslash is forgotten
HasStereoNoBackslash(s) == \E i \in 1..Len(s) : s[i] \in {"@", "/"}

\* Line 37 (and 49): '@' in s or '/' in s or '\\' in s
HasStereo(s) == \E i \in 1..Len(s) : s[i] \in {"@", "/", "\\"}

\* What a PubChem lookup can give back: an exception, or a SMILES string.
SmilesValues ==
    { <<>>, <<"C">>, <<"N">>, <<"C", "@">>, <<"N", "/">>, <<"C", "\\">> }
Failed == [called |-> TRUE, ok |-> FALSE, v |-> <<>>]
Returned(s) == [called |-> TRUE, ok |-> TRUE, v |-> s]
NotCalled == [called |-> FALSE, ok |-> FALSE, v |-> <<>>]
LookupOutcomes == {Failed} \cup {Returned(s) : s \in SmilesValues}

Names == {Str(<<>>), Str(<<"n">>), NullV}
InchiKeys == {Str(<<>>), Str(<<"K">>), NullV}
OldSmiles == <<"O">>
Entries ==
    { [compound_name |-> n, inchikey |-> k, smiles |-> OldSmiles] :
        n \in Names, k \in InchiKeys }

SeqsUpTo(S, n) == UNION { [1..k -> S] : k \in 0..n }

\* compounds = data['compounds'][:max_compounds]
Min(a, b) == IF a < b THEN a ELSE b
NumCompounds == Min(Len(data), max_compounds)
\* the entry the loop is at
Cur == idx + 1
name == data[Cur].compound_name
inchikey == data[Cur].inchikey

Absent == [exists |-> FALSE, compounds |-> <<>>]

InitS ==
    /\ pcS = "loop"
    /\ data \in SeqsUpTo(Entries, MaxEntries)
    /\ max_compounds \in 0..MaxEntries
    /\ idx = 0
    /\ smiles = <<>>
    /\ best_smiles = <<>>
    /\ updated_count = 0
    /\ emptied_count = 0
    /\ output_json = Absent
    /\ ikRes = NotCalled
    /\ nmRes = NotCalled
    /\ ncalls = 0
    /\ slept = FALSE
    /\ chain = <<>>

\* One PubChem request (urllib.request.urlopen) is issued.
Call ==
    /\ ncalls' = ncalls + 1
    /\ slept' = FALSE

\* best_smiles = '' ; emptied_count += 1
Emptied ==
    /\ best_smiles' = <<>>
    /\ emptied_count' = emptied_count + 1

\* a wrong order: the name is tried first
FirstLookupNameFirst(ik, nm) ==
    IF Truthy(nm) THEN "name_only"
    ELSE IF Truthy(ik) THEN "inchikey" ELSE "none"

\* Lines 29, 80-82, 95: if inchikey: ... else: if name: ... else: ...
FirstLookup(ik, nm) ==
    IF Truthy(ik) THEN "inchikey"
    ELSE IF Truthy(nm) THEN "name_only" ELSE "none"

\* Lines 20-29, 80-82, 95-98: read the hints, print the progress line, pick
\* the branch.
BeginItem ==
    /\ pcS = "loop"
    /\ idx < NumCompounds
    /\ ikRes' = NotCalled
    /\ nmRes' = NotCalled
    /\ chain' = <<>>
    /\ UNCHANGED <<data, max_compounds, idx, smiles, updated_count,
                   output_json, ncalls, slept>>
    /\ IF ~Sliceable(name)
       THEN /\ pcS' = "crashed"
            /\ UNCHANGED <<best_smiles, emptied_count>>
       ELSE IF FirstLookup(inchikey, name) # "none"
       THEN /\ pcS' = FirstLookup(inchikey, name)
            /\ best_smiles' = <<>>
            /\ UNCHANGED emptied_count
       ELSE /\ pcS' = "update"
            /\ Emptied
    /\ UNCHANGED <<varsL, varsF>>

\* Lines 30-42, 58-63, 76-79: the InChIKey lookup.
LookupInchikey ==
    /\ pcS = "inchikey"
    /\ \E r \in LookupOutcomes :
        /\ ikRes' = r
        /\ Call
        /\ IF r.ok
           THEN /\ smiles' = r.v
                /\ UNCHANGED emptied_count
                /\ IF HasStereo(r.v)
                   THEN best_smiles' = r.v /\ pcS' = "update"
                   ELSE IF Truthy(name)
                   THEN UNCHANGED best_smiles /\ pcS' = "name_flat"
                   ELSE best_smiles' = r.v /\ pcS' = "update"
           ELSE /\ UNCHANGED smiles
                /\ IF Truthy(name)
                   THEN /\ pcS' = "name_failed"
                        /\ UNCHANGED <<best_smiles, emptied_count>>
                   ELSE /\ pcS' = "update"
                        /\ Emptied
    /\ UNCHANGED <<data, max_compounds, idx, updated_count, output_json, nmRes>>
    /\ chain' = Append(chain, "inchikey")
    /\ UNCHANGED <<varsL, varsF>>

\* Lines 43-57: the InChIKey result was flat, the name lookup looks for stereo.
LookupNameAfterFlat ==
    /\ pcS = "name_flat"
    /\ \E r \in LookupOutcomes :
        /\ nmRes' = r
        /\ Call
        /\ best_smiles' = IF r.ok /\ HasStereo(r.v) THEN r.v ELSE smiles
    /\ pcS' = "update"
    /\ UNCHANGED <<data, max_compounds, idx, smiles, updated_count,
                   emptied_count, output_json, ikRes>>
    /\ chain' = Append(chain, "name")
    /\ UNCHANGED <<varsL, varsF>>

\* a wrong handler: a failed name lookup leaves the last InChIKey result
NameResultKeepsStale(r) ==
    /\ best_smiles' = IF r.ok THEN r.v ELSE smiles
    /\ emptied_count' = IF r.ok THEN emptied_count ELSE emptied_count + 1

\* Lines 64-75 and 83-94: best_smiles = smiles2, or '' when the lookup raises.
NameResult(r) ==
    IF r.ok
    THEN best_smiles' = r.v /\ UNCHANGED emptied_count
    ELSE Emptied

\* Lines 64-75: the InChIKey lookup failed, the name is tried.
LookupNameAfterFailure ==
    /\ pcS = "name_failed"
    /\ \E r \in LookupOutcomes :
        /\ nmRes' = r
        /\ Call
        /\ NameResult(r)
    /\ pcS' = "update"
    /\ UNCHANGED <<data, max_compounds, idx, smiles, updated_count,
                   output_json, ikRes>>
    /\ chain' = Append(chain, "name")
    /\ UNCHANGED <<varsL, varsF>>

\* Lines 83-94: no InChIKey, the name is the only lookup.
LookupNameOnly ==
    /\ pcS = "name_only"
    /\ \E r \in LookupOutcomes :
        /\ nmRes' = r
        /\ Call
        /\ NameResult(r)
    /\ pcS' = "update"
    /\ UNCHANGED <<data, max_compounds, idx, smiles, updated_count,
                   output_json, ikRes>>
    /\ chain' = Append(chain, "name")
    /\ UNCHANGED <<varsL, varsF>>

\* a wrong update: an entry for which nothing was found keeps its smiles
NewSmilesKeepsOld(old, best) == IF best # <<>> THEN best ELSE old

\* Lines 101-105: entry['smiles'] = best_smiles if best_smiles else ''
NewSmiles(old, best) == IF best # <<>> THEN best ELSE <<>>

\* Lines 100-105: entry['smiles'] is overwritten, in memory only.
UpdateEntry ==
    /\ pcS = "update"
    /\ data' = [data EXCEPT ![Cur].smiles = NewSmiles(@, best_smiles)]
    /\ updated_count' =
         IF best_smiles # <<>> THEN updated_count + 1 ELSE updated_count
    /\ pcS' = "sleep"
    /\ UNCHANGED <<max_compounds, idx, smiles, best_smiles, emptied_count,
                   output_json, ikRes, nmRes, ncalls, slept>>
    /\ UNCHANGED chain
    /\ UNCHANGED <<varsL, varsF>>

\* Line 107: time.sleep(0.2), then the loop moves on.
SleepS ==
    /\ pcS = "sleep"
    /\ slept' = TRUE
    /\ idx' = idx + 1
    /\ pcS' = "loop"
    /\ UNCHANGED <<data, max_compounds, smiles, best_smiles, updated_count,
                   emptied_count, output_json, ikRes, nmRes, ncalls>>
    /\ UNCHANGED chain
    /\ UNCHANGED <<varsL, varsF>>

\* Lines 109-141: after the loop the whole data is dumped (JSON, then CSV).
Save ==
    /\ pcS = "loop"
    /\ idx = NumCompounds
    /\ output_json' = [exists |-> TRUE, compounds |-> data]
    /\ pcS' = "done"
    /\ UNCHANGED <<data, max_compounds, idx, smiles, best_smiles,
                   updated_count, emptied_count, ikRes, nmRes, ncalls, slept>>
    /\ UNCHANGED chain
    /\ UNCHANGED <<varsL, varsF>>

NextS ==
    \/ BeginItem
    \/ LookupInchikey
    \/ LookupNameAfterFlat
    \/ LookupNameAfterFailure
    \/ LookupNameOnly
    \/ UpdateEntry
    \/ SleepS
    \/ Save


(***************************************************************************)
(* lotus_batch_extractor: text helpers                                     *)
(***************************************************************************)
MaxPlants == 2
MaxRuns == 2

\* str(n) for the small numbers the model prints
Digit(n) ==
    CASE n = 0 -> "0" [] n = 1 -> "1" [] n = 2 -> "2" [] n = 3 -> "3"
      [] n = 4 -> "4" [] n = 5 -> "5" [] n = 6 -> "6" [] n = 7 -> "7"
      [] n = 8 -> "8" [] OTHER -> "9"

\* "\n".join(lines)
RECURSIVE Join(_)
Join(ls) ==
    IF ls = <<>> THEN <<>>
    ELSE IF Len(ls) = 1 THEN ls[1]
    ELSE ls[1] \o <<"\n">> \o Join(Tail(ls))

\* s.split(u)[0]: the text before the first u
RECURSIVE UpTo(_, _)
UpTo(s, u) ==
    IF s = <<>> \/ Head(s) = u THEN <<>> ELSE <<Head(s)>> \o UpTo(Tail(s), u)

\* the text after the first u (empty when there is none)
RECURSIVE AfterFirst(_, _)
AfterFirst(s, u) ==
    IF s = <<>> THEN <<>>
    ELSE IF Head(s) = u THEN Tail(s) ELSE AfterFirst(Tail(s), u)

\* s.split(u): the pieces of s between the occurrences of u
RECURSIVE Split(_, _)
Split(s, u) ==
    IF \E i \in 1..Len(s) : s[i] = u
    THEN <<UpTo(s, u)>> \o Split(AfterFirst(s, u), u)
    ELSE <<s>>

Whitespace == {" ", "\n"}

\* s.strip()
RECURSIVE Strip(_)
Strip(s) ==
    IF s = <<>> THEN s
    ELSE IF Head(s) \in Whitespace THEN Strip(Tail(s))
    ELSE IF s[Len(s)] \in Whitespace THEN Strip(SubSeq(s, 1, Len(s) - 1))
    ELSE s

\* the lines `for line in f` yields (without their line ends; a last line
\* that has no line end is yielded too)
Lines(text) ==
    LET ls == Split(text, "\n")
    IN  IF ls[Len(ls)] = <<>> THEN SubSeq(ls, 1, Len(ls) - 1) ELSE ls

(***************************************************************************)
(* get_reference_metadata, query_lotus_for_plant                           *)
(***************************************************************************)
NoMetadata == [doi |-> <<>>, title |-> <<>>, pub_date |-> <<>>]

\* What the Wikidata request for a reference can do: fail (an exception
\* or a status other than 200), or answer with an entity that holds or
\* lacks each of the claims P356 (DOI), P1476 (title), P577 (date).
NoAnswer == [ok |-> FALSE, P356 |-> FALSE, P1476 |-> FALSE, P577 |-> FALSE]
Answer(a, b, c) == [ok |-> TRUE, P356 |-> a, P1476 |-> b, P577 |-> c]
\* The answers drawn: a failure, an entity with none of the claims, with
\* the DOI only, with the title only, with both and no date, with all.
MetadataAnswers ==
    { NoAnswer, Answer(FALSE, FALSE, FALSE), Answer(TRUE, FALSE, FALSE),
      Answer(FALSE, TRUE, FALSE), Answer(TRUE, TRUE, FALSE),
      Answer(TRUE, TRUE, TRUE) }

\* Lines 14-57: each of doi, title, pub_date is filled when its claim is
\* there (lines 30, 36, 46), all are empty on any failure.
get_reference_metadata(answer) ==
    IF answer.ok
    THEN [doi |-> IF answer.P356 THEN <<"d">> ELSE <<>>,
          title |-> IF answer.P1476 THEN <<"t">> ELSE <<>>,
          pub_date |-> IF answer.P577
                       THEN <<"+", "2020", "T", "0">> ELSE <<>>]
    ELSE NoMetadata

\* The rows a SPARQL answer can hold (before the reference metadata).
B1 == [compoundLabel |-> <<"x">>, smiles |-> <<"C">>, inchikey |-> <<"K">>,
       reference |-> <<"Q">>]
Bindings == { <<>>, <<B1>> }

\* What one SPARQL query can do: raise, or answer; and what the reference
\* metadata request it triggers does.
QueryOutcomes ==
    {[ok |-> FALSE, rows |-> <<>>, metadata |-> NoAnswer]}
      \cup {[ok |-> TRUE, rows |-> b, metadata |-> m] :
              b \in Bindings, m \in MetadataAnswers}

\* Lines 79-101.
query_lotus_for_plant(o) ==
    IF ~o.ok THEN <<>>
    ELSE [i \in 1..Len(o.rows) |->
            IF o.rows[i].reference # <<>>
            THEN get_reference_metadata(o.metadata) @@ o.rows[i]
            ELSE o.rows[i]]

(***************************************************************************)
(* format_output                                                           *)
(***************************************************************************)
\* compound.get(f, default)
Get(c, f, default) == IF f \in DOMAIN c THEN c[f] ELSE default

\* Lines 118-123: key = (comp_name, doi, title), with the defaults of .get
CompositeKey(c) ==
    <<Get(c, "compoundLabel", <<"Unknown">>), Get(c, "doi", <<>>),
      Get(c, "title", <<>>)>>

\* a wrong loop: seen[key] = compound for every entry, so a key keeps the
\* place of its first entry and the fields of its last
AggregateKeepsLast(compounds) ==
    LET n == Len(compounds)
        first(i) == \A j \in 1..(i - 1) :
                      CompositeKey(compounds[j]) # CompositeKey(compounds[i])
        last(i) == CHOOSE j \in i..n :
                     /\ CompositeKey(compounds[j]) = CompositeKey(compounds[i])
                     /\ \A k \in (j + 1)..n :
                          CompositeKey(compounds[k]) # CompositeKey(compounds[i])
        RECURSIVE keep(_)
        keep(i) == IF i > n THEN <<>>
                   ELSE (IF first(i) THEN <<compounds[last(i)]>> ELSE <<>>)
                          \o keep(i + 1)
    IN  keep(1)

\* Lines 116-125: the first entry of each key, in order of first occurrence.
Aggregate(compounds) ==
    LET first(i) == \A j \in 1..(i - 1) :
                      CompositeKey(compounds[j]) # CompositeKey(compounds[i])
        RECURSIVE keep(_)
        keep(i) == IF i > Len(compounds) THEN <<>>
                   ELSE (IF first(i) THEN <<compounds[i]>> ELSE <<>>)
                          \o keep(i + 1)
    IN  keep(1)

\* Line 151: pub_date.replace('+', '').split('T')[0]
CleanDate(d) == UpTo(SelectSeq(d, LAMBDA u : u # "+"), "T")

\* Lines 127-152: the lines of one compound.
CompoundLines(n, c) ==
    LET comp_name == CompositeKey(c)[1]
        smilesF == Get(c, "smiles", <<>>)
        inchikeyF == Get(c, "inchikey", <<>>)
        doi == Get(c, "doi", <<>>)
        title == Get(c, "title", <<>>)
        pub_date == Get(c, "pub_date", <<>>)
    IN  <<(<<"\n", "Compound ", Digit(n), ":", " ">> \o comp_name)>>
          \o (IF smilesF # <<>>
              THEN <<(<<"  SMILES: ">> \o smilesF)>> ELSE <<>>)
          \o (IF inchikeyF # <<>>
              THEN <<(<<"  InChIKey: ">> \o inchikeyF)>> ELSE <<>>)
          \o (IF doi # <<>> \/ title # <<>>
              THEN (IF title # <<>>
                    THEN <<(<<"  Title: ">> \o title)>> ELSE <<>>)
                \o (IF doi # <<>> THEN <<(<<"  DOI: ">> \o doi)>> ELSE <<>>)
                \o (IF pub_date # <<>>
                    THEN <<(<<"  Published: ">> \o CleanDate(pub_date))>>
                    ELSE <<>>)
              ELSE <<>>)

\* Line 108: the header line of a section.
HeaderLine(plant_num, plant_name) ==
    <<"PLANT ", "#">> \o plant_num \o <<":", " ">> \o plant_name

\* Lines 104-154.
format_output(plant_num, plant_name, compounds) ==
    LET top == << <<"\n", "RULE">>, HeaderLine(plant_num, plant_name),
                  <<"RULE">> >>
        seen == Aggregate(compounds)
        RECURSIVE body(_)
        body(i) == IF i > Len(seen) THEN <<>>
                   ELSE CompoundLines(i, seen[i]) \o body(i + 1)
    IN  IF compounds = <<>>
        THEN Join(top \o << <<"NONE">> >>)
        ELSE Join(top \o body(1))

(***************************************************************************)
(* format_output called on its own, on any list of compound dicts          *)
(***************************************************************************)
MaxRows == 3

\* The dicts format_output can be given: two that share a key and differ in
\* another field, one that differs from them in the DOI only, one without
\* a compoundLabel and one whose compoundLabel is the default of .get.
CompoundEntries ==
    { [compoundLabel |-> <<"x">>, doi |-> <<"d">>, title |-> <<"t">>,
       smiles |-> <<"C">>],
      [compoundLabel |-> <<"x">>, doi |-> <<"d">>, title |-> <<"t">>,
       smiles |-> <<"N">>],
      [compoundLabel |-> <<"x">>, doi |-> <<>>, title |-> <<"t">>,
       smiles |-> <<"C">>],
      [doi |-> <<"d">>, title |-> <<"t">>, smiles |-> <<"C">>],
      [compoundLabel |-> <<"Unknown">>, doi |-> <<"d">>, title |-> <<"t">>,
       smiles |-> <<"N">>] }

\* The plant_num and plant_name arguments of the call.
ArgNum == <<"1">>
ArgName == <<"a">>

InitF ==
    /\ pcF = "start"
    /\ inCompounds \in SeqsUpTo(CompoundEntries, MaxRows)
    /\ seenItems = <<>>
    /\ returned = <<>>

\* Lines 104-113: nothing to aggregate, the 'No compounds' section.
ReturnNoCompounds ==
    /\ pcF = "start"
    /\ inCompounds = <<>>
    /\ returned' = format_output(ArgNum, ArgName, inCompounds)
    /\ pcF' = "returned"
    /\ UNCHANGED <<inCompounds, seenItems>>
    /\ UNCHANGED <<varsS, varsL>>

\* Lines 104-109, 115-154: the loop that fills seen, then the lines of
\* seen.items(), joined and returned.
Deduplicate ==
    /\ pcF = "start"
    /\ inCompounds # <<>>
    /\ seenItems' = Aggregate(inCompounds)
    /\ returned' = format_output(ArgNum, ArgName, inCompounds)
    /\ pcF' = "deduplicated"
    /\ UNCHANGED inCompounds
    /\ UNCHANGED <<varsS, varsL>>

NextF ==
    \/ ReturnNoCompounds
    \/ Deduplicate

(***************************************************************************)
(* main                                                                    *)
(***************************************************************************)
\* Lines 205-207: the header of a new output file.
FileHeader(n) ==
    <<"LOTUS BATCH COMPOUND EXTRACTION RESULTS", "\n",
      "Total Plants: ", Digit(n), "\n", "Generated: ", "TIME", "\n">>

\* Line 194: line.startswith('PLANT #')
IsPlantLine(line) == Len(line) >= 2 /\ line[1] = "PLANT " /\ line[2] = "#"

\* Line 196: line.split('#')[1].split(':')[0].strip()
ParseKey(line) == Strip(UpTo(UpTo(AfterFirst(line, "#"), "#"), ":"))

\* Lines 190-199: the keys of the sections found in the existing output.
ScanCompleted(text) ==
    LET ls == Lines(text)
    IN  { ParseKey(ls[i]) : i \in { j \in 1..Len(ls) : IsPlantLine(ls[j]) } }

\* Line 216: [n.strip() for n in plant_name.split(" or ")]
NamesToQuery(plant_name) ==
    LET ps == Split(plant_name, " or ")
    IN  [i \in 1..Len(ps) |-> Strip(ps[i])]

\* The rows plants.csv can hold: plain keys, a key with a colon in it, one
\* name and two synonyms joined by " or ".
Plants ==
    { [num |-> <<"1">>, name |-> <<"a">>],
      [num |-> <<"2">>, name |-> <<"a", " or ", "b">>],
      [num |-> <<"1", ":", "2">>, name |-> <<"b">>] }

NoFile == [exists |-> FALSE, text |-> <<>>]

InitL ==
    /\ pcL = "start"
    /\ plants \in SeqsUpTo(Plants, MaxPlants)
    /\ disk = NoFile
    /\ out = <<>>
    /\ is_new_file = FALSE
    /\ completed_plants = {}
    /\ pi = 0
    /\ names_to_query = <<>>
    /\ qi = 0
    /\ all_compounds = <<>>
    /\ total_compounds = 0
    /\ run = 1
    /\ prevEnd = "none"
    /\ processed = <<>>
    /\ nqueries = 0
    /\ qfails = 0
    /\ marks = <<>>
    /\ heads = <<>>
    /\ diskAtStart = <<>>
    /\ killN = 0
    /\ killClean = FALSE
    /\ truncIdx = 0
    /\ failed = << {} >>

\* a wrong test: the key is looked up with the '#' of the header line
IsCompletedWithHash(plant_num) == (<<"#">> \o plant_num) \in completed_plants

\* a wrong test: the keys of the sections this run wrote count as completed
IsCompletedOrWritten(plant_num) ==
    \/ plant_num \in completed_plants
    \/ \E k \in 1..Len(processed) : plants[processed[k]].num = plant_num

\* Line 210: plant_num in completed_plants
IsCompleted(plant_num) == plant_num \in completed_plants

\* a wrong mode: the output is always opened for writing
ModeAlwaysWrite(isNew) == "w"

\* Line 187: mode = 'w' if is_new_file else 'a'
Mode(isNew) == IF isNew THEN "w" ELSE "a"

\* a wrong start: the header is written whether the file is new or not
InitialOutputAlways(isNew, n) == FileHeader(n)

\* Lines 204-207: if is_new_file, the header is written first.
InitialOutput(isNew, n) == IF isNew THEN FileHeader(n) ELSE <<>>

\* Lines 185-207: look at the output file, scan it, open it, write the
\* header of a new file.
StartRun ==
    /\ pcL = "start"
    /\ is_new_file' = ~disk.exists
    /\ completed_plants' =
         IF disk.exists THEN ScanCompleted(disk.text) ELSE {}
    /\ disk' = [exists |-> TRUE,
                text |-> IF Mode(~disk.exists) = "w" THEN <<>> ELSE disk.text]
    /\ diskAtStart' = disk.text
    /\ out' = InitialOutput(~disk.exists, Len(plants))
    /\ pi' = 0
    /\ pcL' = "loop"
    /\ UNCHANGED <<plants, names_to_query, qi, all_compounds, total_compounds,
                   run, prevEnd, processed, nqueries, qfails, marks, heads,
                   killN, killClean, truncIdx>>
    /\ UNCHANGED failed
    /\ UNCHANGED <<varsS, varsF>>

\* Lines 209-211: a plant whose key is in completed_plants is passed over.
SkipPlant ==
    /\ pcL = "loop"
    /\ pi < Len(plants)
    /\ IsCompleted(plants[pi + 1].num)
    /\ pi' = pi + 1
    /\ UNCHANGED <<pcL, plants, disk, out, is_new_file, completed_plants,
                   names_to_query, qi, all_compounds, total_compounds, run,
                   prevEnd, processed, nqueries, qfails, marks, heads,
                   diskAtStart, killN, killClean, truncIdx>>
    /\ UNCHANGED failed
    /\ UNCHANGED <<varsS, varsF>>

\* Lines 213-218.
BeginPlant ==
    /\ pcL = "loop"
    /\ pi < Len(plants)
    /\ ~IsCompleted(plants[pi + 1].num)
    /\ names_to_query' = NamesToQuery(plants[pi + 1].name)
    /\ all_compounds' = <<>>
    /\ qi' = 0
    /\ qfails' = 0
    /\ pcL' = "query"
    /\ UNCHANGED <<plants, disk, out, is_new_file, completed_plants, pi,
                   total_compounds, run, prevEnd, processed, nqueries, marks,
                   heads, diskAtStart, killN, killClean, truncIdx>>
    /\ UNCHANGED failed
    /\ UNCHANGED <<varsS, varsF>>

\* Lines 219-222: one name is queried, then time.sleep(0.3).
QueryName ==
    /\ pcL = "query"
    /\ qi < Len(names_to_query)
    /\ \E o \in QueryOutcomes :
         /\ all_compounds' = all_compounds \o query_lotus_for_plant(o)
         /\ qfails' = IF o.ok THEN qfails ELSE qfails + 1
    /\ qi' = qi + 1
    /\ nqueries' = nqueries + 1
    /\ UNCHANGED <<pcL, plants, disk, out, is_new_file, completed_plants, pi,
                   names_to_query, total_compounds, run, prevEnd, processed,
                   marks, heads, diskAtStart, killN, killClean, truncIdx>>
    /\ UNCHANGED failed
    /\ UNCHANGED <<varsS, varsF>>

\* Lines 224-230: the section is formatted and written to out_file.
WritePlant ==
    /\ pcL = "query"
    /\ qi = Len(names_to_query)
    /\ LET p == plants[pi + 1]
       IN  /\ out' = out \o format_output(p.num, p.name, all_compounds)
                         \o <<"\n">>
           /\ heads' = Append(heads,
                              Len(out) + 3 + Len(HeaderLine(p.num, p.name)))
    /\ marks' = Append(marks, Len(out'))
    /\ total_compounds' = total_compounds
         + Cardinality({ Get(all_compounds[i], "compoundLabel", <<>>) :
                           i \in 1..Len(all_compounds) })
    /\ processed' = Append(processed, pi + 1)
    /\ pi' = pi + 1
    /\ pcL' = "loop"
    /\ UNCHANGED <<plants, disk, is_new_file, completed_plants,
                   names_to_query, qi, all_compounds, run, prevEnd, nqueries,
                   qfails, diskAtStart, killN, killClean, truncIdx>>
    /\ failed' = IF qfails = Len(names_to_query)
                 THEN [failed EXCEPT ![run] = @ \cup {pi + 1}]
                 ELSE failed
    /\ UNCHANGED <<varsS, varsF>>

\* Lines 203, 232-234: the with block ends, the file is closed and with
\* that everything written reaches the disk.
Finish ==
    /\ pcL = "loop"
    /\ pi = Len(plants)
    /\ disk' = [disk EXCEPT !.text = disk.text \o out]
    /\ out' = <<>>
    /\ pcL' = "done"
    /\ UNCHANGED <<plants, is_new_file, completed_plants, pi, names_to_query,
                   qi, all_compounds, total_compounds, run, prevEnd,
                   processed, nqueries, qfails, marks, heads, diskAtStart,
                   killN, killClean, truncIdx>>
    /\ UNCHANGED failed
    /\ UNCHANGED <<varsS, varsF>>

\* The process is terminated. out_file.write is buffered, so the disk holds
\* the text the file had when opened plus some prefix of what was written.
Kill ==
    /\ pcL \in {"loop", "query"}
    /\ run < MaxRuns
    /\ \E k \in 0..Len(out) :
        LET n == Cardinality({ i \in 1..Len(marks) : marks[i] <= k })
        IN  /\ disk' = [disk EXCEPT !.text = disk.text \o SubSeq(out, 1, k)]
            /\ killN' = n
            /\ killClean' =
                 (k = IF n = 0
                      THEN (IF is_new_file THEN Len(FileHeader(0)) ELSE 0)
                      ELSE marks[n])
            /\ truncIdx' =
                 IF n < Len(marks) /\ heads[n + 1] <= k
                 THEN processed[n + 1] ELSE 0
    /\ out' = <<>>
    /\ pcL' = "killed"
    /\ UNCHANGED <<plants, is_new_file, completed_plants, pi, names_to_query,
                   qi, all_compounds, total_compounds, run, prevEnd,
                   processed, nqueries, qfails, marks, heads, diskAtStart>>
    /\ UNCHANGED failed
    /\ UNCHANGED <<varsS, varsF>>

\* main is started again on the same work set and output location.
Restart ==
    /\ pcL \in {"done", "killed"}
    /\ run < MaxRuns
    /\ run' = run + 1
    /\ prevEnd' = pcL
    /\ pcL' = "start"
    /\ is_new_file' = FALSE
    /\ completed_plants' = {}
    /\ pi' = 0
    /\ names_to_query' = <<>>
    /\ qi' = 0
    /\ all_compounds' = <<>>
    /\ total_compounds' = 0
    /\ processed' = <<>>
    /\ nqueries' = 0
    /\ qfails' = 0
    /\ marks' = <<>>
    /\ heads' = <<>>
    /\ UNCHANGED <<plants, disk, out, diskAtStart, killN, killClean, truncIdx>>
    /\ failed' = Append(failed, {})
    /\ UNCHANGED <<varsS, varsF>>

(***************************************************************************)
(* The two programs are run separately: a behaviour is a run of one.       *)
(***************************************************************************)
IdleS ==
    /\ pcS = "idle"
    /\ data = <<>>
    /\ max_compounds = 0
    /\ idx = 0
    /\ smiles = <<>>
    /\ best_smiles = <<>>
    /\ updated_count = 0
    /\ emptied_count = 0
    /\ output_json = Absent
    /\ ikRes = NotCalled
    /\ nmRes = NotCalled
    /\ ncalls = 0
    /\ slept = FALSE
    /\ chain = <<>>

IdleL ==
    /\ pcL = "idle"
    /\ plants = <<>>
    /\ disk = NoFile
    /\ out = <<>>
    /\ is_new_file = FALSE
    /\ completed_plants = {}
    /\ pi = 0
    /\ names_to_query = <<>>
    /\ qi = 0
    /\ all_compounds = <<>>
    /\ total_compounds = 0
    /\ run = 1
    /\ prevEnd = "none"
    /\ processed = <<>>
    /\ nqueries = 0
    /\ qfails = 0
    /\ marks = <<>>
    /\ heads = <<>>
    /\ diskAtStart = <<>>
    /\ killN = 0
    /\ killClean = FALSE
    /\ truncIdx = 0
    /\ failed = << {} >>

IdleF ==
    /\ pcF = "idle"
    /\ inCompounds = <<>>
    /\ seenItems = <<>>
    /\ returned = <<>>

Init ==
    \/ InitS /\ IdleL /\ IdleF
    \/ InitL /\ IdleS /\ IdleF
    \/ InitF /\ IdleS /\ IdleL

Next ==
    \/ BeginItem
    \/ LookupInchikey
    \/ LookupNameAfterFlat
    \/ LookupNameAfterFailure
    \/ LookupNameOnly
    \/ UpdateEntry
    \/ SleepS
    \/ Save
    \/ StartRun
    \/ SkipPlant
    \/ BeginPlant
    \/ QueryName
    \/ WritePlant
    \/ Finish
    \/ Kill
    \/ Restart
    \/ ReturnNoCompounds
    \/ Deduplicate

Spec == Init /\ [][Next]_vars

\* One uninterrupted run of either program, from no output file.
NextRun ==
    \/ BeginItem
    \/ LookupInchikey
    \/ LookupNameAfterFlat
    \/ LookupNameAfterFailure
    \/ LookupNameOnly
    \/ UpdateEntry
    \/ SleepS
    \/ Save
    \/ StartRun
    \/ BeginPlant
    \/ QueryName
    \/ WritePlant
    \/ Finish

SpecRun == Init /\ [][NextRun]_vars

\* update_smiles_strict alone
InitSmiles == InitS /\ IdleL /\ IdleF
SpecSmiles == InitSmiles /\ [][NextS]_vars

\* format_output alone
InitFormat == InitF /\ IdleS /\ IdleL
SpecFormat == InitFormat /\ [][NextF]_vars

(***************************************************************************)
(* Claims                                                                  *)
(***************************************************************************)
\* The FULL tier: a SMILES containing '@', '/' or '\'.
IsFull(s) == \E i \in 1..Len(s) : s[i] = "@" \/ s[i] = "/" \/ s[i] = "\\"
\* The DEGRADED tier: a lookup that returned a value, and a non-stereo one.
IsDegraded(r) == r.called /\ r.ok /\ r.v # <<>> /\ ~IsFull(r.v)
ReturnedFull(r) == r.called /\ r.ok /\ IsFull(r.v)
\* The current entry of update_smiles_strict has been resolved and updated.
Resolved == pcS = "sleep"
\* The run of main in progress is a restart that has scanned the output.
Restarted == run = 2 /\ pcL \in {"loop", "query", "done", "killed"}

\* C1: when the killed run left a last section cut after its header line
\* 'PLANT #<key>: ...', the completion set the restart computes does not
\* hold that section's key (so the restart processes the plant again).
C1_TruncatedSectionExcluded ==
    (Restarted /\ prevEnd = "killed" /\ truncIdx # 0)
      => plants[truncIdx].num \notin completed_plants

\* C2: a run killed after exactly N sections reached the disk and restarted
\* on the same work set of M plants processes exactly M - N plants, and the
\* output still starts with the text the interrupted run left.
C2_ResumeProcessesRemaining ==
    (run = 2 /\ pcL = "done" /\ prevEnd = "killed" /\ killClean)
      => /\ Len(processed) = Len(plants) - killN
         /\ Len(disk.text) >= Len(diskAtStart)
         /\ SubSeq(disk.text, 1, Len(diskAtStart)) = diskAtStart

\* C3: a second run after a completed run, on the same work set and output,
\* processes nothing: no lookup, no section, the output unchanged.
C3_SecondRunProcessesNothing ==
    (Restarted /\ prevEnd = "done")
      => /\ processed = <<>>
         /\ nqueries = 0
         /\ out = <<>>
         /\ disk.text = diskAtStart

\* C4: whenever update_smiles_strict has processed i entries, the persisted
\* output holds the results of these i entries.
C4_ResultPersistedAfterEachItem ==
    (pcS # "idle" /\ idx > 0)
      => /\ output_json.exists
         /\ \A i \in 1..idx :
              output_json.compounds[i].smiles = data[i].smiles

\* C5: a fault raised while handling one entry (a malformed hint field)
\* never aborts the run.
C5_FaultIsolated == pcS # "crashed"

\* C6: if a consulted lookup returned a FULL-tier value, the entry's resolved
\* value is exactly that value and no later lookup was invoked for the entry.
C6_ShortCircuitOnFull ==
    /\ ReturnedFull(ikRes) => ~nmRes.called
    /\ (Resolved /\ ReturnedFull(ikRes)) => data[Cur].smiles = ikRes.v
    /\ (Resolved /\ ReturnedFull(nmRes)) => data[Cur].smiles = nmRes.v

\* the InChIKey lookup returned FULL for an entry that also has a name
C6_Witness == Resolved /\ ReturnedFull(ikRes) /\ Truthy(name)

\* C7: when no consulted lookup returned FULL and at least one returned a
\* DEGRADED value, the resolved value is the first DEGRADED value in chain
\* order (InChIKey before name) and is not empty.
C7_DegradedFallback ==
    (/\ Resolved
     /\ ~ReturnedFull(ikRes) /\ ~ReturnedFull(nmRes)
     /\ (IsDegraded(ikRes) \/ IsDegraded(nmRes)))
      => /\ data[Cur].smiles # <<>>
         /\ data[Cur].smiles =
              IF IsDegraded(ikRes) THEN ikRes.v ELSE nmRes.v

\* C8: a failed lookup raises nothing and contributes nothing, the chain goes
\* on to the next lookup, and when every consulted lookup failed the entry
\* resolves to the empty value and the run goes on; in the LOTUS extractor a
\* query that raised adds no compound.
C8_LookupFailuresContained ==
    /\ pcS = "crashed" => (~ikRes.called /\ ~nmRes.called)
    /\ (pcS \in {"update", "sleep"} /\ ikRes.called /\ ~ikRes.ok
          /\ Truthy(name)) => nmRes.called
    /\ (pcS \in {"update", "sleep"} /\ (ikRes.called \/ nmRes.called)
          /\ ~(ikRes.called /\ ikRes.ok) /\ ~(nmRes.called /\ nmRes.ok))
         => best_smiles = <<>>
    /\ (Resolved /\ (ikRes.called \/ nmRes.called)
          /\ ~(ikRes.called /\ ikRes.ok) /\ ~(nmRes.called /\ nmRes.ok))
         => data[Cur].smiles = <<>>
    /\ (pcL = "query" /\ qfails = qi) => all_compounds = <<>>

\* both lookups of an entry failed
C8_Witness ==
    /\ Resolved
    /\ ikRes.called /\ ~ikRes.ok
    /\ nmRes.called /\ ~nmRes.ok

\* C9: an entry with an empty InChIKey and an empty name resolves to the
\* empty value with no lookup call.
C9_NoHintNoLookup ==
    (pcS \in {"update", "sleep"} /\ name = Str(<<>>) /\ inchikey = Str(<<>>))
      => /\ ~ikRes.called
         /\ ~nmRes.called
         /\ best_smiles = <<>>
         /\ Resolved => data[Cur].smiles = <<>>

\* an entry without hints has been resolved
C9_Witness == Resolved /\ name = Str(<<>>) /\ inchikey = Str(<<>>)

\* C10: a PubChem call that is not the first one is made only after a
\* time.sleep since the previous call.
C10_DelayBetweenCalls ==
    [][ncalls' > ncalls => (ncalls = 0 \/ slept)]_vars

\* The run of main in progress has scanned the output and is in or past
\* its loop.
InRun == pcL \in {"loop", "query", "done", "killed"}

\* The number of lookups the plants of the list ps (indices) call for.
RECURSIVE LookupsFor(_)
LookupsFor(ps) ==
    IF ps = <<>> THEN 0
    ELSE Len(NamesToQuery(plants[Head(ps)].name)) + LookupsFor(Tail(ps))

\* C11: in every run of main, a plant whose key is in the completion set
\* computed at the start of the run gets no section and no lookup: every
\* plant written has a key outside the set, the plant being queried has a
\* key outside the set, and the lookups issued are exactly those of the
\* plants written plus those made so far for the plant being queried.
C11_SkipInvariant ==
    InRun =>
      /\ \A k \in 1..Len(processed) :
           plants[processed[k]].num \notin completed_plants
      /\ pcL = "query" => plants[pi + 1].num \notin completed_plants
      /\ pcL \in {"loop", "done"} => nqueries = LookupsFor(processed)
      /\ pcL = "query" => nqueries = LookupsFor(processed) + qi
\* a restart that skipped one plant and wrote another
C11_Witness ==
    /\ Restarted /\ pcL = "done"
    /\ Len(processed) > 0
    /\ \E i \in 1..Len(plants) : plants[i].num \in completed_plants

IsPrefix(s, t) == Len(s) <= Len(t) /\ SubSeq(t, 1, Len(s)) = s

\* The indices up to n of the plants whose key is not in the completion
\* set, in the order of the work set.
RECURSIVE NotCompletedUpTo(_)
NotCompletedUpTo(n) ==
    IF n = 0 THEN <<>>
    ELSE NotCompletedUpTo(n - 1)
           \o (IF plants[n].num \in completed_plants THEN <<>> ELSE <<n>>)

\* The 'PLANT #' lines of a text, in order.
PlantLinesOf(text) == SelectSeq(Lines(text), IsPlantLine)

\* The header lines of the plants of the list ps (indices), in order.
HeaderLinesOf(ps) ==
    [k \in 1..Len(ps) |-> HeaderLine(plants[ps[k]].num, plants[ps[k]].name)]

\* C12: the plants that are not skipped are processed in the order of the
\* work set, their sections are appended in that order, and no step ever
\* removes or rewrites text: the text on disk before a step is a prefix of
\* the text on disk after it, within a run and across restarts, and what a
\* run has written so far stays a prefix of what it writes.
C12_OrderedAppendOnly ==
    /\ [](InRun =>
            /\ processed = NotCompletedUpTo(pi)
            /\ pcL = "loop" =>
                  PlantLinesOf(out) = HeaderLinesOf(processed)
            /\ pcL = "done" =>
                  /\ IsPrefix(diskAtStart, disk.text)
                  /\ PlantLinesOf(SubSeq(disk.text, Len(diskAtStart) + 1,
                                         Len(disk.text)))
                       = HeaderLinesOf(processed))
    /\ [][/\ IsPrefix(disk.text, disk'.text)
          /\ (pcL \in {"loop", "query"} /\ pcL' \in {"loop", "query"})
                => IsPrefix(out, out')]_vars
\* a restart on an output that holds section text has appended a section
C12_Witness ==
    /\ Restarted /\ pcL = "done"
    /\ Len(processed) >= 1
    /\ Len(diskAtStart) > Len(FileHeader(0))
    /\ Len(disk.text) > Len(diskAtStart)

\* C13: every entry processed by update_smiles_strict incremented exactly
\* one of the two counters, whatever the lookups did: the counters add up
\* to the number of entries processed so far.
C13_StatisticsPartition ==
    /\ pcS \in {"loop", "done"} => updated_count + emptied_count = idx
    /\ pcS = "sleep" => updated_count + emptied_count = idx + 1

\* The position of the first entry of inCompounds that has the key of e.
FirstWithKey(e) ==
    CHOOSE i \in 1..Len(inCompounds) :
      /\ CompositeKey(inCompounds[i]) = CompositeKey(e)
      /\ \A j \in 1..(i - 1) :
           CompositeKey(inCompounds[j]) # CompositeKey(e)

\* C14: the deduplicated sequence of format_output has exactly one entry
\* for each composite key (compound label, DOI, title) of the input, that
\* entry is the first input entry with the key, all fields kept, the
\* entries come in the order of the first occurrence of their keys, and
\* the input list is left as it was.
C14_AggregationFirstWins ==
    /\ [](pcF = "deduplicated" =>
            /\ { CompositeKey(seenItems[k]) : k \in 1..Len(seenItems) }
                 = { CompositeKey(inCompounds[i]) : i \in 1..Len(inCompounds) }
            /\ \A k, l \in 1..Len(seenItems) :
                 k # l => CompositeKey(seenItems[k]) # CompositeKey(seenItems[l])
            /\ \A k \in 1..Len(seenItems) :
                 seenItems[k] = inCompounds[FirstWithKey(seenItems[k])]
            /\ \A k, l \in 1..Len(seenItems) :
                 k < l => FirstWithKey(seenItems[k]) < FirstWithKey(seenItems[l]))
    /\ [][inCompounds' = inCompounds]_vars
\* two keys kept in order and a later entry of a kept key dropped, an entry
\* that differs from the kept one in another field
C14_Witness ==
    /\ pcF = "deduplicated"
    /\ Len(seenItems) = 2
    /\ \E i \in 2..Len(inCompounds) :
         /\ CompositeKey(inCompounds[i]) = CompositeKey(inCompounds[1])
         /\ inCompounds[i] # inCompounds[1]

\* The number of times the unit u occurs in a text.
Count(text, u) == Len(SelectSeq(text, LAMBDA x : x = u))
HeaderTitle == "LOTUS BATCH COMPOUND EXTRACTION RESULTS"

\* C15: a run of main that finds no output file (in this model, the first
\* run) writes the file header once, before any section; a run that finds
\* the file writes no header and keeps the text it found as a prefix of the
\* output.
C15_OutputInitialisation ==
    InRun =>
      /\ is_new_file = (run = 1)
      /\ (is_new_file /\ pcL \in {"loop", "query"}) =>
            /\ diskAtStart = <<>> /\ disk.text = <<>>
            /\ IsPrefix(FileHeader(Len(plants)), out)
            /\ Count(out, HeaderTitle) = 1
      /\ (is_new_file /\ pcL = "done") =>
            /\ IsPrefix(FileHeader(Len(plants)), disk.text)
            /\ Count(disk.text, HeaderTitle) = 1
      /\ ~is_new_file =>
            /\ Count(out, HeaderTitle) = 0
            /\ IsPrefix(diskAtStart, disk.text)
            /\ Count(disk.text, HeaderTitle) = Count(diskAtStart, HeaderTitle)
\* a restart found the file with its header and added a section to it
C15_Witness ==
    /\ Restarted /\ pcL = "done"
    /\ Count(diskAtStart, HeaderTitle) = 1
    /\ Len(processed) >= 1

\* The entry being processed, once its lookups are over.
ChainOver == pcS \in {"update", "sleep"}
\* The entry being processed has a non-empty name / a non-empty InChIKey.
HasName ==
    data[Cur].compound_name.t = "str" /\ data[Cur].compound_name.v # <<>>
HasInchikey == data[Cur].inchikey.t = "str" /\ data[Cur].inchikey.v # <<>>

\* C16 as stated: the name lookup is made for an entry only if the InChIKey
\* lookup of that entry returned a DEGRADED value.
C16_NameOnlyAfterDegraded ==
    (ChainOver /\ nmRes.called) => IsDegraded(ikRes)

\* C16 amended: the name lookup is made for an entry only if the entry has
\* a non-empty name and the InChIKey lookup did not return a FULL value:
\* it was not made because the entry has no InChIKey, or it failed, or it
\* returned a value without stereo markers.
C16_NameOnlyWithoutFull ==
    (ChainOver /\ nmRes.called) =>
      /\ HasName
      /\ \/ ~ikRes.called /\ ~HasInchikey
         \/ ikRes.called /\ ~ikRes.ok
         \/ ikRes.called /\ ikRes.ok /\ ~IsFull(ikRes.v)
\* the name lookup made after a failed InChIKey lookup
C16_Witness ==
    ChainOver /\ nmRes.called /\ ikRes.called /\ ~ikRes.ok /\ nmRes.ok

\* C17: throughout a run of main the completion set is the one computed
\* from the output found at the start (empty when there was none): the
\* keys of the sections the run writes are not added, so every plant the
\* loop has passed whose key is outside that set was written, a plant with
\* the key of a plant written earlier in the run included.
C17_CompletionSetFixed ==
    InRun =>
      /\ completed_plants =
           (IF is_new_file THEN {} ELSE ScanCompleted(diskAtStart))
      /\ \A i \in 1..pi :
           plants[i].num \notin completed_plants
             => \E k \in 1..Len(processed) : processed[k] = i
\* two plants with one key, both written by the same run
C17_Witness ==
    /\ pcL = "done"
    /\ Len(plants) = 2 /\ plants[1].num = plants[2].num
    /\ processed = <<1, 2>>

\* C18: an entry among the first max_compounds, once processed, holds the
\* value the chain resolved, which is the empty string when nothing was
\* found, and never the smiles it had before the run; the entries beyond
\* max_compounds (and those not processed yet) hold the smiles they had,
\* and the saved file holds exactly these values.
C18_StrictOverwrite ==
    pcS # "idle" =>
      /\ \A i \in 1..Len(data) :
           IF i <= idx \/ (i = idx + 1 /\ pcS = "sleep")
           THEN data[i].smiles # OldSmiles
           ELSE data[i].smiles = OldSmiles
      /\ pcS = "sleep" => data[Cur].smiles = best_smiles
      /\ (pcS = "sleep" /\ ~(ikRes.called /\ ikRes.ok)
                        /\ ~(nmRes.called /\ nmRes.ok))
           => data[Cur].smiles = <<>>
      /\ idx <= max_compounds
      /\ pcS = "done" => output_json.compounds = data
\* a saved run: the first entry was emptied, an entry beyond max_compounds
\* kept its smiles
C18_Witness ==
    /\ pcS = "done"
    /\ idx >= 1 /\ Len(data) > max_compounds
    /\ output_json.compounds[1].smiles = <<>>
    /\ output_json.compounds[Len(data)].smiles = OldSmiles

\* C19: for every entry and all lookup outcomes the lookups made for the
\* entry are, in order, one of: none, the InChIKey lookup, the name lookup,
\* the InChIKey lookup then the name lookup; so each is made at most once,
\* at most two calls are made, and the InChIKey lookup comes first. Which
\* lookup comes first depends on the entry's hints only: the InChIKey
\* lookup is made, and made first, exactly when the entry has an InChIKey.
C19_ChainOrderBounded ==
    pcS \notin {"idle", "loop", "done", "crashed"} =>
      /\ chain \in {<<>>, <<"inchikey">>, <<"name">>, <<"inchikey", "name">>}
      /\ ikRes.called <=> (chain # <<>> /\ chain[1] = "inchikey")
      /\ nmRes.called <=> (chain # <<>> /\ chain[Len(chain)] = "name")
      /\ ChainOver => (HasInchikey <=> ikRes.called)
\* both lookups were made for an entry
C19_Witness == ChainOver /\ chain = <<"inchikey", "name">>

\* C20: a plant all of whose queries raised is written as a complete
\* section, so after a finished run a restart has its key in the completion
\* set and does not process it again.
C20_FailedItemNeverRetried ==
    (Restarted /\ prevEnd = "done") =>
      \A i \in failed[1] :
        /\ plants[i].num \in completed_plants
        /\ \A k \in 1..Len(processed) : processed[k] # i

====
